---- MODULE Spec2Model ----
(***************************************************************************)
(* Model of src/Main.py (cxx2hx): the script that parses one C/C++ header  *)
(* with CppHeaderParser and writes its JSON serialization to data.json     *)
(* beside the script.                                                      *)
(*                                                                         *)
(* A state is one point of one run of the script together with the         *)
(* file system the runs share.  Strings are sequences of tokens, so that   *)
(* string concatenation is \o and a path is split at its "/" tokens the    *)
(* way os.path does.  Standard output is taken to be writable.             *)
(***************************************************************************)
EXTENDS Integers, Sequences, FiniteSets, TLC

VARIABLES
    pc,          \* the statement the run is at: "idle", "L5" .. "L22", "unhandled", "done"
    cwd,         \* the working directory of the run (its components)
    argv,        \* sys.argv; argv[1] here is sys.argv[0]
    file,        \* __file__ of the __main__ module
    outpath,     \* outpath        (line 9)
    includeFile, \* includeFile    (line 11)
    header,      \* header         (line 13)
    json,        \* the value of header.toJSON() while f.write runs (line 17)
    f,           \* the file object (line 15): state, the file it is open on, close() calls
    stdout,      \* the lines printed by this run
    exitStatus,  \* exit status of the run, NoStatus while it runs
    fs,          \* the output locations of the file system
    fs0,         \* history: fs when the run was launched
    log          \* history: the calls made and the failures raised in this run

vars == <<pc, cwd, argv, file, outpath, includeFile, header, json, f, stdout,
          exitStatus, fs, fs0, log>>

-----------------------------------------------------------------------------
(* Bounds *)

\* the most arguments given after the header path
MaxExtraArgs == 1

-----------------------------------------------------------------------------
(* The installation and the environment of a run *)

SEP == "/"

\* the directory Main.py is installed in, and the script itself
ProgDir == <<"opt", "cxx2hx">>
ScriptName == <<"Main.py">>

\* the file the specification calls data.json: the one beside the script
DataJson == ProgDir \o <<"data.json">>

\* the directories a run is started from
Cwds == { <<>>, <<"opt">>, ProgDir, <<"home">> }

\* the output locations followed in the file system
Paths == { DataJson, <<"data.json">> }

NoFile == [exists |-> FALSE, data |-> <<>>]

IsPrefix(s, t) == Len(s) <= Len(t) /\ SubSeq(t, 1, Len(s)) = s

\* a path string from its components
RECURSIVE Join(_)
Join(parts) ==
    IF parts = <<>> THEN <<>>
    ELSE IF Len(parts) = 1 THEN parts
    ELSE <<Head(parts), SEP>> \o Join(Tail(parts))

AbsPath(parts) == <<SEP>> \o Join(parts)

\* the components a path string names, as the operating system resolves it
Resolve(dir, p) ==
    LET comps == SelectSeq(p, LAMBDA t : t # SEP)
    IN  IF p # <<>> /\ Head(p) = SEP THEN comps ELSE dir \o comps

\* the ways the script can be named on the command line from directory dir
ScriptPaths(dir) ==
    { AbsPath(ProgDir \o ScriptName) } \cup
    ( IF IsPrefix(dir, ProgDir)
      THEN { Join(SubSeq(ProgDir, Len(dir) + 1, Len(ProgDir)) \o ScriptName) }
      ELSE {} )

\* __file__ of __main__: the script path as typed (CPython before 3.9) or its
\* absolute form (CPython 3.9 and later)
MainFile(dir, typed) == { typed, AbsPath(Resolve(dir, typed)) }

-----------------------------------------------------------------------------
(* The external parser, CppHeaderParser *)

\* the header paths given to the program
HeaderPaths == { <<"a.h">>, <<"b.h">>, <<"bad.h">>, <<"odd.h">> }

\* the declarations of each header the parser can process
Declarations(path) ==
    CASE path = <<"a.h">>   -> <<"A">>
      [] path = <<"b.h">>   -> <<"B">>
      [] path = <<"odd.h">> -> <<"O">>
      [] OTHER              -> <<>>

\* the headers CppHeaderParser.CppHeader() returns for; it raises on the others
Parses(path) == path \in { <<"a.h">>, <<"b.h">>, <<"odd.h">> }

NoHeader == [parsed |-> FALSE, decls |-> <<>>]

CppHeader(path) == [parsed |-> TRUE, decls |-> Declarations(path)]

\* the parsed headers header.toJSON() returns for; it raises on the others
Serializes(h) == h.decls # <<"O">>

toJSON(h) == <<"{">> \o h.decls \o <<"}">>

-----------------------------------------------------------------------------
(* Values *)

NoStatus == -1
NoArgs == <<>>
NoHandle == [state |-> "none", path |-> <<>>, closes |-> 0]

UsageMessage == <<"Header file path missing.">>

\* FailureMessage with the input path left out of the message
FailureMessageNoPath(path) == <<"Could not generate JSON or write file for: ">>

FailureMessage(path) == <<"Could not generate JSON or write file for: ">> \o path

RECURSIVE SeqsUpTo(_, _)
SeqsUpTo(S, n) ==
    IF n = 0 THEN { <<>> }
    ELSE SeqsUpTo(S, n - 1) \cup
         { Append(s, x) : s \in { t \in SeqsUpTo(S, n - 1) : Len(t) = n - 1 }, x \in S }

\* the argument lists of a run: none, or a header path and further arguments
ArgLists ==
    { <<>> } \cup
    { <<h>> \o extra : h \in HeaderPaths, extra \in SeqsUpTo({ <<"-v">> }, MaxExtraArgs) }

-----------------------------------------------------------------------------
(* Library calls on strings and files *)

\* os.path.dirname (posixpath)
dirname(p) ==
    LET slashes == { j \in 1..Len(p) : p[j] = SEP }
        i == IF slashes = {} THEN 0
             ELSE CHOOSE j \in slashes : \A k \in slashes : k <= j
        head == SubSeq(p, 1, i)
        RECURSIVE rstrip(_)
        rstrip(s) == IF s # <<>> /\ s[Len(s)] = SEP
                     THEN rstrip(SubSeq(s, 1, Len(s) - 1)) ELSE s
    IN  IF head # <<>> /\ (\E j \in 1..Len(head) : head[j] # SEP)
        THEN rstrip(head) ELSE head

\* OpenFileW in append mode, open(path, "a"): earlier contents are kept
OpenFileA(fsys, p) == [fsys EXCEPT ![p].exists = TRUE]

\* the file system after open(path, "w") returns: the file exists and is empty
OpenFileW(fsys, p) == [fsys EXCEPT ![p] = [exists |-> TRUE, data |-> <<>>]]

\* the file system after data was written at the end of the open file
WriteData(fsys, p, data) == [fsys EXCEPT ![p].data = @ \o data]

-----------------------------------------------------------------------------
(* Initial state: no run yet, any earlier output beside the script *)

Init ==
    /\ pc = "idle"
    /\ cwd = <<>>
    /\ argv = NoArgs
    /\ file = <<>>
    /\ outpath = <<>>
    /\ includeFile = <<>>
    /\ header = NoHeader
    /\ json = <<>>
    /\ f = NoHandle
    /\ stdout = <<>>
    /\ exitStatus = NoStatus
    /\ fs \in { [p \in Paths |-> NoFile],
                [p \in Paths |-> IF p = DataJson
                                 THEN [exists |-> TRUE, data |-> <<"old">>]
                                 ELSE NoFile] }
    /\ fs0 = fs
    /\ log = {}

-----------------------------------------------------------------------------
(* Actions *)

\* the interpreter starts the script: python <typed> <args>
Launch(dir, typed, main, args) ==
    /\ pc \in { "idle", "done" }
    /\ pc' = "L5"
    /\ cwd' = dir
    /\ argv' = <<typed>> \o args
    /\ file' = main
    /\ outpath' = <<>>
    /\ includeFile' = <<>>
    /\ header' = NoHeader
    /\ json' = <<>>
    /\ f' = NoHandle
    /\ stdout' = <<>>
    /\ exitStatus' = NoStatus
    /\ fs0' = fs
    /\ log' = {}
    /\ UNCHANGED fs

\* ArgCheck with the comparison off by one: len(sys.argv) < 1
ArgCheckOffByOne ==
    /\ pc = "L5"
    /\ pc' = IF Len(argv) < 1 THEN "L6" ELSE "L9"
    /\ UNCHANGED <<cwd, argv, file, outpath, includeFile, header, json, f, stdout,
                   exitStatus, fs, fs0, log>>

\* line 5: if len(sys.argv) <= 1
ArgCheck ==
    /\ pc = "L5"
    /\ pc' = IF Len(argv) <= 1 THEN "L6" ELSE "L9"
    /\ UNCHANGED <<cwd, argv, file, outpath, includeFile, header, json, f, stdout,
                   exitStatus, fs, fs0, log>>

\* line 6: print("Header file path missing.")
PrintUsage ==
    /\ pc = "L6"
    /\ stdout' = Append(stdout, UsageMessage)
    /\ pc' = "L7"
    /\ UNCHANGED <<cwd, argv, file, outpath, includeFile, header, json, f,
                   exitStatus, fs, fs0, log>>

\* SysExit with status 0: sys.exit(0)
SysExitZero ==
    /\ pc = "L7"
    /\ exitStatus' = 0
    /\ pc' = "done"
    /\ UNCHANGED <<cwd, argv, file, outpath, includeFile, header, json, f, stdout,
                   fs, fs0, log>>

\* line 7: sys.exit(1)
SysExit ==
    /\ pc = "L7"
    /\ exitStatus' = 1
    /\ pc' = "done"
    /\ UNCHANGED <<cwd, argv, file, outpath, includeFile, header, json, f, stdout,
                   fs, fs0, log>>

\* line 9: outpath = os.path.dirname(__file__) + "/data.json"
SetOutpath ==
    /\ pc = "L9"
    /\ outpath' = dirname(file) \o <<SEP, "data.json">>
    /\ pc' = "L11"
    /\ UNCHANGED <<cwd, argv, file, includeFile, header, json, f, stdout,
                   exitStatus, fs, fs0, log>>

\* line 11: includeFile = sys.argv[1]; an index out of range raises IndexError
SetIncludeFile ==
    /\ pc = "L11"
    /\ IF Len(argv) >= 2
       THEN /\ includeFile' = argv[2]
            /\ pc' = "L13"
            /\ log' = log
       ELSE /\ includeFile' = includeFile
            /\ pc' = "unhandled"
            /\ log' = log \cup { "IndexError" }
    /\ UNCHANGED <<cwd, argv, file, outpath, header, json, f, stdout,
                   exitStatus, fs, fs0>>

\* line 13: header = CppHeaderParser.CppHeader(includeFile), returning
ParseOk ==
    /\ pc = "L13"
    /\ Parses(includeFile)
    /\ header' = CppHeader(includeFile)
    /\ log' = log \cup { "CppHeader" }
    /\ pc' = "L15"
    /\ UNCHANGED <<cwd, argv, file, outpath, includeFile, json, f, stdout,
                   exitStatus, fs, fs0>>

\* ParseFail with the parser's exception swallowed: the script goes on to open
ParseFailSwallowed ==
    /\ pc = "L13"
    /\ ~Parses(includeFile)
    /\ log' = log \cup { "CppHeader", "CppHeader raised" }
    /\ pc' = "L15"
    /\ UNCHANGED <<cwd, argv, file, outpath, includeFile, header, json, f, stdout,
                   exitStatus, fs, fs0>>

\* ParseFail with the open statement placed before the parser call: the output
\* file is already truncated when the parser raises
ParseFailAfterOpen ==
    /\ pc = "L13"
    /\ ~Parses(includeFile)
    /\ fs' = OpenFileW(fs, Resolve(cwd, outpath))
    /\ log' = log \cup { "CppHeader", "CppHeader raised" }
    /\ pc' = "unhandled"
    /\ UNCHANGED <<cwd, argv, file, outpath, includeFile, header, json, f, stdout,
                   exitStatus, fs0>>

\* line 13: the parser raises; nothing encloses the call
ParseFail ==
    /\ pc = "L13"
    /\ ~Parses(includeFile)
    /\ log' = log \cup { "CppHeader", "CppHeader raised" }
    /\ pc' = "unhandled"
    /\ UNCHANGED <<cwd, argv, file, outpath, includeFile, header, json, f, stdout,
                   exitStatus, fs, fs0>>

\* line 15: f = open(outpath, "w"), returning: the file is created or truncated
OpenOk ==
    /\ pc = "L15"
    /\ LET p == Resolve(cwd, outpath)
       IN  /\ fs' = OpenFileW(fs, p)
           /\ f' = [state |-> "open", path |-> p, closes |-> 0]
    /\ log' = log \cup { "open" }
    /\ pc' = "L17"
    /\ UNCHANGED <<cwd, argv, file, outpath, includeFile, header, json, stdout,
                   exitStatus, fs0>>

\* OpenFail with the open statement placed inside the try: the except branch runs
OpenFailCaught ==
    /\ pc = "L15"
    /\ log' = log \cup { "open", "open raised" }
    /\ pc' = "L19"
    /\ UNCHANGED <<cwd, argv, file, outpath, includeFile, header, json, f, stdout,
                   exitStatus, fs, fs0>>

\* line 15: open raises (no permission, no space); the call is before the try
OpenFail ==
    /\ pc = "L15"
    /\ log' = log \cup { "open", "open raised" }
    /\ pc' = "unhandled"
    /\ UNCHANGED <<cwd, argv, file, outpath, includeFile, header, json, f, stdout,
                   exitStatus, fs, fs0>>

\* line 17: header.toJSON(), returning
SerializeOk ==
    /\ pc = "L17"
    /\ Serializes(header)
    /\ json' = toJSON(header)
    /\ log' = log \cup { "toJSON" }
    /\ pc' = "L17w"
    /\ UNCHANGED <<cwd, argv, file, outpath, includeFile, header, f, stdout,
                   exitStatus, fs, fs0>>

\* line 17: header.toJSON() raises inside the try
SerializeFail ==
    /\ pc = "L17"
    /\ ~Serializes(header)
    /\ log' = log \cup { "toJSON", "toJSON raised" }
    /\ pc' = "L19"
    /\ UNCHANGED <<cwd, argv, file, outpath, includeFile, header, json, f, stdout,
                   exitStatus, fs, fs0>>

\* line 17: f.write(...), returning
WriteOk ==
    /\ pc = "L17w"
    /\ fs' = WriteData(fs, f.path, json)
    /\ log' = log \cup { "write" }
    /\ pc' = "L21"
    /\ UNCHANGED <<cwd, argv, file, outpath, includeFile, header, json, f, stdout,
                   exitStatus, fs0>>

\* line 17: f.write(...) raises inside the try after k tokens reached the file
WriteFail(k) ==
    /\ pc = "L17w"
    /\ k < Len(json)
    /\ fs' = WriteData(fs, f.path, SubSeq(json, 1, k))
    /\ log' = log \cup { "write", "write raised" }
    /\ pc' = "L19"
    /\ UNCHANGED <<cwd, argv, file, outpath, includeFile, header, json, f, stdout,
                   exitStatus, fs0>>

\* ExceptPrint without the finally clause: close() is skipped after a failure
ExceptPrintNoFinally ==
    /\ pc = "L19"
    /\ stdout' = Append(stdout, FailureMessage(includeFile))
    /\ pc' = "L22"
    /\ UNCHANGED <<cwd, argv, file, outpath, includeFile, header, json, f,
                   exitStatus, fs, fs0, log>>

\* lines 18-19: except: print("Could not generate JSON or write file for: " + includeFile)
ExceptPrint ==
    /\ pc = "L19"
    /\ stdout' = Append(stdout, FailureMessage(includeFile))
    /\ pc' = "L21"
    /\ UNCHANGED <<cwd, argv, file, outpath, includeFile, header, json, f,
                   exitStatus, fs, fs0, log>>

\* the file object after f.close(): released, whether or not close() raises
Closed(h) == [h EXCEPT !.state = "closed", !.closes = @ + 1]

\* lines 20-21: finally: f.close(), returning
CloseOk ==
    /\ pc = "L21"
    /\ f' = Closed(f)
    /\ log' = log \cup { "close" }
    /\ pc' = "L22"
    /\ UNCHANGED <<cwd, argv, file, outpath, includeFile, header, json, stdout,
                   exitStatus, fs, fs0>>

\* lines 20-21: f.close() raises while flushing: the handle is released, a
\* prefix of what was written stays in the file, nothing encloses the call
CloseFail(k) ==
    /\ pc = "L21"
    /\ k <= Len(fs[f.path].data)
    /\ f' = Closed(f)
    /\ fs' = [fs EXCEPT ![f.path].data = SubSeq(@, 1, k)]
    /\ log' = log \cup { "close", "close raised" }
    /\ pc' = "unhandled"
    /\ UNCHANGED <<cwd, argv, file, outpath, includeFile, header, json, stdout,
                   exitStatus, fs0>>

\* the end of the module is reached: the interpreter exits with status 0
ModuleEnd ==
    /\ pc = "L22"
    /\ exitStatus' = 0
    /\ pc' = "done"
    /\ UNCHANGED <<cwd, argv, file, outpath, includeFile, header, json, f, stdout,
                   fs, fs0, log>>

\* an exception left the module: the interpreter prints the traceback on
\* standard error and exits with status 1
Unhandled ==
    /\ pc = "unhandled"
    /\ exitStatus' = 1
    /\ pc' = "done"
    /\ UNCHANGED <<cwd, argv, file, outpath, includeFile, header, json, f, stdout,
                   fs, fs0, log>>

Next ==
    \/ \E dir \in Cwds : \E typed \in ScriptPaths(dir) :
         \E main \in MainFile(dir, typed) : \E args \in ArgLists :
           Launch(dir, typed, main, args)
    \/ ArgCheck
    \/ PrintUsage
    \/ SysExit
    \/ SetOutpath
    \/ SetIncludeFile
    \/ ParseOk
    \/ ParseFail
    \/ OpenOk
    \/ OpenFail
    \/ SerializeOk
    \/ SerializeFail
    \/ WriteOk
    \/ \E k \in 0..Len(json) : WriteFail(k)
    \/ ExceptPrint
    \/ CloseOk
    \/ \E k \in 0..Len(json) : CloseFail(k)
    \/ ModuleEnd
    \/ Unhandled

Spec == Init /\ [][Next]_vars

-----------------------------------------------------------------------------
(* Vocabulary of the properties *)

Done == pc = "done"

Called(call) == call \in log

ParserFailed == "CppHeader raised" \in log
OpenFailed == "open raised" \in log
SerializeFailed == "toJSON raised" \in log
WriteFailed == "write raised" \in log
CloseFailed == "close raised" \in log

\* the handle was acquired: open returned
Acquired == Called("open") /\ ~OpenFailed

\* a run that was given a header path
HasArgument == pc # "idle" /\ Len(argv) >= 2

\* a run that was given no argument
NoArgument == pc # "idle" /\ Len(argv) <= 1

\* the serialization of the header named by sys.argv[1]
Serialization == toJSON(CppHeader(argv[2]))

EmptyFile == [exists |-> TRUE, data |-> <<>>]

\* the printed line ends with the path: it names the file
Names(line, path) ==
    /\ path # <<>>
    /\ Len(line) > Len(path)
    /\ SubSeq(line, Len(line) - Len(path) + 1, Len(line)) = path

\* exactly one line was printed, and it names sys.argv[1]
OneMessageNamingInput == Len(stdout) = 1 /\ Names(stdout[1], argv[2])

-----------------------------------------------------------------------------
(* C1 *)

\* C1: a run without a command-line argument prints the usage message and
\* exits with status 1; at no point of the run is the parser invoked or the
\* output file opened, and the file system is as it was when the run began.
C1_NoArgumentUsage ==
    NoArgument =>
        /\ ~Called("CppHeader")
        /\ ~Called("open")
        /\ f = NoHandle
        /\ fs = fs0
        /\ Done => stdout = <<UsageMessage>> /\ exitStatus = 1

\* C1 witness: a finished run without argument that left an earlier data.json in place
C1_Witness ==
    /\ Done
    /\ NoArgument
    /\ exitStatus = 1
    /\ fs[DataJson].exists
    /\ fs[DataJson].data # <<>>

-----------------------------------------------------------------------------
(* C2 *)

\* C2 as stated: exit status 1 when the argument is missing, and exit status
\* 0 for every run with an argument, whichever stage failed, the failure
\* being only printed to standard output.
C2_ExitStatusAsStated ==
    Done =>
        /\ NoArgument => exitStatus = 1
        /\ HasArgument => exitStatus = 0

\* C2 amended: exit status 1 when the argument is missing; a run with an
\* argument exits with status 0 exactly when the parser, open() and close()
\* all return, whichever of toJSON() and write() failed, and such a failure
\* is only printed to standard output; when the parser, open() or close()
\* raises, the exception is unhandled and the exit status is 1.
C2_ExitStatus ==
    Done =>
        /\ NoArgument => exitStatus = 1
        /\ HasArgument =>
            /\ exitStatus = IF ParserFailed \/ OpenFailed \/ CloseFailed THEN 1 ELSE 0
            /\ stdout = IF SerializeFailed \/ WriteFailed
                        THEN <<FailureMessage(argv[2])>> ELSE <<>>

\* C2 witness: a finished run whose write failed and that exited with status 0
C2_Witness ==
    /\ Done
    /\ HasArgument
    /\ WriteFailed
    /\ exitStatus = 0

-----------------------------------------------------------------------------
(* C3 *)

\* C3: in every run that acquired the output file handle, close() is called
\* exactly once before the run ends and the handle is released, whether
\* serialization and writing succeeded or one of them failed; no finished run
\* has the handle still open, and close() is never called twice.
C3_HandleReleased ==
    /\ f.closes <= 1
    /\ Done => f.state # "open"
    /\ (Done /\ Acquired) => f.state = "closed" /\ f.closes = 1

\* C3 witness: a finished run whose serialization failed after the handle was acquired
C3_Witness ==
    /\ Done
    /\ Acquired
    /\ SerializeFailed
    /\ f.state = "closed"

-----------------------------------------------------------------------------
(* C4 *)

\* C4 as stated: after a failure of toJSON() or write(), exactly one message
\* naming sys.argv[1] is printed, the handle is closed, and the run ends
\* normally with exit status 0.
C4_RecoveryAsStated ==
    (Done /\ (SerializeFailed \/ WriteFailed)) =>
        /\ OneMessageNamingInput
        /\ f.state = "closed"
        /\ f.closes = 1
        /\ exitStatus = 0

\* C4 amended: after a failure of toJSON() or write() the failure is caught,
\* exactly one message naming sys.argv[1] is printed before close() is
\* called, and the handle is closed once; the run then ends with exit status
\* 0 when close() returns, and with an unhandled exception and exit status 1
\* when close() itself raises.
C4_Recovery ==
    (SerializeFailed \/ WriteFailed) =>
        /\ pc \in { "L19", "L21", "L22", "unhandled", "done" }
        /\ pc # "L19" => OneMessageNamingInput
        /\ Called("close") => OneMessageNamingInput
        /\ pc = "unhandled" => CloseFailed
        /\ Done =>
            /\ f.state = "closed"
            /\ f.closes = 1
            /\ exitStatus = IF CloseFailed THEN 1 ELSE 0

\* C4 witness: a finished run whose write failed part-way, recovered, with status 0
C4_Witness ==
    /\ Done
    /\ WriteFailed
    /\ fs[f.path].data # <<>>
    /\ stdout = <<FailureMessage(<<"a.h">>)>>
    /\ exitStatus = 0

-----------------------------------------------------------------------------
(* C5 *)

\* C5: the output file is opened, and so truncated, only after the parser
\* has returned; when the parser fails the file system is as it was when the
\* run began: data.json is not created, truncated or written.
C5_ParseBeforeOpen ==
    /\ Called("open") => header.parsed /\ ~ParserFailed
    /\ ParserFailed => fs = fs0 /\ f = NoHandle /\ ~Called("open")

\* C5 witness: a finished run whose parser failed, with the output of an earlier run kept
C5_Witness ==
    /\ Done
    /\ ParserFailed
    /\ fs[DataJson] = [exists |-> TRUE, data |-> toJSON(CppHeader(<<"a.h">>))]

-----------------------------------------------------------------------------
(* C6 *)

\* C6: after a run that completes successfully (exit status 0, no failure
\* printed) the output file holds exactly the serialization of the header
\* given to that run, whatever it held before; so after any sequence of
\* successful runs it holds the serialization of the last header alone.
C6_Overwrite ==
    (Done /\ HasArgument /\ exitStatus = 0 /\ stdout = <<>>) =>
        /\ f.path = Resolve(cwd, outpath)
        /\ fs[f.path] = [exists |-> TRUE, data |-> Serialization]

\* C6 witness: a successful run over the output of an earlier run with another header
C6_Witness ==
    /\ Done
    /\ exitStatus = 0
    /\ stdout = <<>>
    /\ argv[2] = <<"b.h">>
    /\ fs0[f.path] = [exists |-> TRUE, data |-> toJSON(CppHeader(<<"a.h">>))]
    /\ fs[f.path].data = toJSON(CppHeader(<<"b.h">>))

-----------------------------------------------------------------------------
(* C7 *)

\* C7: a failure of the parser is not handled: the run ends there abnormally,
\* nothing is printed on standard output, open, toJSON, write and close are
\* not reached, and the exit status is not 0.
C7_ParserFailurePropagates ==
    ParserFailed =>
        /\ pc \in { "unhandled", "done" }
        /\ stdout = <<>>
        /\ log = { "CppHeader", "CppHeader raised" }
        /\ f = NoHandle
        /\ exitStatus # 0
        /\ Done => exitStatus = 1

\* C7 witness: a finished run whose parser failed
C7_Witness ==
    /\ Done
    /\ ParserFailed
    /\ argv[2] = <<"bad.h">>
    /\ exitStatus = 1

-----------------------------------------------------------------------------
(* C8 *)

\* C8: the output path always names data.json in the program's own directory,
\* whatever the input path, the further arguments and the working directory
\* are, and no file but that one is created or modified by a run.
C8_OutputBesideProgram ==
    /\ pc \in { "L11", "L13", "L15", "L17", "L17w", "L19", "L21", "L22" }
         => Resolve(cwd, outpath) = DataJson
    /\ \A p \in Paths : fs[p] # fs0[p] => p = DataJson

-----------------------------------------------------------------------------
(* C9 *)

\* C9 as stated: the output file is truncated when it is opened, before
\* serialization is attempted; after a run whose toJSON() failed it exists
\* and is empty, after a run whose write failed it holds a prefix of the
\* serialization, and in both cases the run still exits with status 0.
C9_TruncationAsStated ==
    /\ pc = "L17" => fs[f.path] = EmptyFile
    /\ (Done /\ SerializeFailed) => fs[f.path] = EmptyFile /\ exitStatus = 0
    /\ (Done /\ WriteFailed) =>
        /\ fs[f.path].exists
        /\ IsPrefix(fs[f.path].data, Serialization)
        /\ exitStatus = 0

\* C9 amended: the output file is truncated when it is opened, before
\* serialization is attempted; after a run whose toJSON() failed it exists
\* and is empty, after a run whose write failed it holds at most a prefix of
\* the serialization, so the earlier contents are lost; the run exits with
\* status 0 when close() returns and with status 1 when close() raises.
C9_Truncation ==
    /\ pc = "L17" => fs[f.path] = EmptyFile
    /\ (Done /\ SerializeFailed) =>
        /\ fs[f.path] = EmptyFile
        /\ exitStatus = IF CloseFailed THEN 1 ELSE 0
    /\ (Done /\ WriteFailed) =>
        /\ fs[f.path].exists
        /\ IsPrefix(fs[f.path].data, Serialization)
        /\ exitStatus = IF CloseFailed THEN 1 ELSE 0

\* C9 witness: a run with status 0 whose toJSON() failed and emptied an earlier output
C9_Witness ==
    /\ Done
    /\ SerializeFailed
    /\ exitStatus = 0
    /\ fs0[f.path].exists
    /\ fs0[f.path].data # <<>>
    /\ fs[f.path] = EmptyFile

-----------------------------------------------------------------------------
(* C10 *)

\* C10: a failure of open() is not recovered: the exception is unhandled, no
\* message is printed, there is no handle and close() is not called, and the
\* exit status is not 0; the except branch is reached only by a failure of
\* toJSON() or of write().
C10_OpenFailurePropagates ==
    /\ OpenFailed =>
        /\ pc \in { "unhandled", "done" }
        /\ stdout = <<>>
        /\ f = NoHandle
        /\ ~Called("close")
        /\ fs = fs0
        /\ exitStatus # 0
        /\ Done => exitStatus = 1
    /\ pc = "L19" => SerializeFailed \/ WriteFailed
    /\ (HasArgument /\ stdout # <<>>) => SerializeFailed \/ WriteFailed

\* C10 witness: a finished run whose open() failed after the parser returned
C10_Witness ==
    /\ Done
    /\ OpenFailed
    /\ header.parsed
    /\ exitStatus = 1

====
